---- MODULE Spec2Model ----
(***************************************************************************)
(* Model of examples/link_prediction_hetero/link_prediction_tensor.py:     *)
(* the graph transformer WN_transform, the evaluation routine test() and   *)
(* the training loop train().                                              *)
(*                                                                         *)
(* Probabilities are integers in percent (0.5 is 50).  An accuracy is the  *)
(* unreduced fraction [n |-> correct, d |-> candidates] the code divides;  *)
(* numpy's int64/0 is the fraction with d = 0 (n = 0: nan, n > 0: inf).    *)
(***************************************************************************)
EXTENDS Integers, Sequences, FiniteSets, TLC

VARIABLES
    entry,        \* which entry point this run exercises: "transform", "test", "train"
    pc,           \* position of the running function
    G,            \* WN_transform: the input graph
    num_edge_types, \* WN_transform: its second argument
    H,            \* WN_transform: the returned graph, or the raised error
    tin,          \* test(): the splits handed to it, with the model's outputs per batch
    tres,         \* test(): what it returned or raised
    epochs,       \* train(): args.epochs
    dataloaders,  \* train(): the three splits
    model,        \* train(): the live model object [params, training]
    grad,         \* train(): the live model's gradient buffers
    best_model,   \* train(): a reference to the live model or a copied object
    val_max,      \* train(): running maximum of the validation accuracy
    epoch,        \* train(): loop variable of line 131
    iter_i,       \* train(): loop variable of line 134 (1-based here)
    t_accu_sum,   \* train(): [v, np]: the counter and whether numpy made it an int64
    t_accu_cnt,   \* train()
    pred,         \* train(): the training forward pass's output
    accs,         \* train(): the accuracies of the current step / the final ones
    v_accu,       \* train(): the list of per-step validation accuracies
    p_hist,       \* history: the live parameters after each optimizer step
    copies,       \* history: the steps at which deepcopy was called
    stepTrace,    \* history: the operations of the current step, in order
    counts,       \* history: number of optimizer steps, log lines, best-model checks
    evalLog,      \* history: for each call of test(): the caller, the splits, the model
    out,          \* train(): the final printed line, once printed
    exc           \* the exception that ended the run, or "none"

vars == <<entry, pc, G, num_edge_types, H, tin, tres, epochs, dataloaders, model,
          grad, best_model, val_max, epoch, iter_i, t_accu_sum, t_accu_cnt, pred,
          accs, v_accu, p_hist, copies, stepTrace, counts, evalLog, out, exc>>

(***************************************************************************)
(* Bounds of the model.                                                    *)
(***************************************************************************)
MaxEdges == 2        \* edges of a graph given to WN_transform
MaxTypes == 2        \* num_edge_types given to WN_transform
MaxBatches == 2      \* batches per split given directly to test()
MaxEpochs == 4       \* args.epochs ranges over 0..MaxEpochs
MaxSteps == 4        \* training steps of a run of train()

(***************************************************************************)
(* Numbers                                                                 *)
(***************************************************************************)
Half == 50           \* the threshold 0.5, in percent

NaN == [n |-> 0, d |-> 0]

IsNaN(a) == a.d = 0 /\ a.n = 0

IsInf(a) == a.d = 0 /\ a.n > 0

\* a <= b where the code has a < b
LessEq(a, b) ==
    IF IsNaN(a) \/ IsNaN(b) THEN FALSE
    ELSE IF IsInf(b) THEN TRUE
    ELSE IF IsInf(a) THEN FALSE
    ELSE a.n * b.d <= b.n * a.d

\* Python's a < b on floats (false whenever a nan takes part).
Less(a, b) ==
    IF IsNaN(a) \/ IsNaN(b) THEN FALSE
    ELSE IF IsInf(a) THEN FALSE
    ELSE IF IsInf(b) THEN TRUE
    ELSE a.n * b.d < b.n * a.d

\* acc / num as the code evaluates it.  acc is [v, np]: np says that a
\* np.sum(...) was added, which makes acc a numpy int64; num is [v, bound].
Divide(acc, num) ==
    IF ~num.bound THEN [err |-> "UnboundLocalError", val |-> NaN]
    ELSE IF num.v = 0 /\ ~acc.np THEN [err |-> "ZeroDivisionError", val |-> NaN]
    ELSE [err |-> "none", val |-> [n |-> acc.v, d |-> num.v]]

(***************************************************************************)
(* Thresholding and counting, lines 140-145 and 187-192                    *)
(***************************************************************************)
\* p >= 0.5 where the code has p > 0.5
PredLabelAtLeastHalf(p) == IF p >= Half THEN 1 ELSE 0

\* pred_label = zeros; pred_label[p > 0.5] = 1; pred_label[p <= 0.5] = 0
PredLabel(p) == IF p > Half THEN 1 ELSE 0

RECURSIVE NumCorrect(_, _, _)
\* np.sum(pred_label == edge_label) over one relation type, from position i.
NumCorrect(p, y, i) ==
    IF i > Len(p) THEN 0
    ELSE (IF PredLabel(p[i]) = y[i] THEN 1 ELSE 0) + NumCorrect(p, y, i + 1)

RECURSIVE KeyLoop(_, _, _, _)
\* for key in pred: acc += np.sum(...); num += len(pred_label)
KeyLoop(b, k, acc, num) ==
    IF k > Len(b.p) THEN [acc |-> acc, num |-> num]
    ELSE KeyLoop(b, k + 1,
                 [v |-> acc.v + NumCorrect(b.p[k], b.y[k], 1), np |-> TRUE],
                 [v |-> num.v + Len(b.p[k]), bound |-> num.bound])

RECURSIVE BatchLoop(_, _, _, _)
\* for i, batch in enumerate(dataloader): num = 0; ...
BatchLoop(batches, i, acc, num) ==
    IF i > Len(batches) THEN [acc |-> acc, num |-> num]
    ELSE LET r == KeyLoop(batches[i], 1, acc, [v |-> 0, bound |-> TRUE])
         IN  BatchLoop(batches, i + 1, r.acc, r.num)

\* accs = {}
NoAccs == [x \in {} |-> NaN]

RECURSIVE SplitLoop(_, _, _, _)
\* for mode, dataloader in dataloaders.items(): acc = 0; ...; accs[mode] = acc / num
\* num is a local of test(), not of the loop body: it survives from split to split.
SplitLoop(splits, m, res, num) ==
    IF m > Len(splits) THEN [err |-> "none", accs |-> res]
    ELSE LET r == BatchLoop(splits[m].batches, 1, [v |-> 0, np |-> FALSE], num)
             q == Divide(r.acc, r.num)
         IN  IF q.err # "none" THEN [err |-> q.err, accs |-> NoAccs]
             ELSE SplitLoop(splits, m + 1, (splits[m].mode :> q.val) @@ res, r.num)

\* Lines 179-194 of test(), on the model's outputs for every batch.
TestLoop(splits) == SplitLoop(splits, 1, NoAccs, [v |-> 0, bound |-> FALSE])

(***************************************************************************)
(* WN_transform, lines 61-70                                               *)
(***************************************************************************)
InputDim == 5        \* input_dim=5

Digit(d) ==
    CASE d = 0 -> "0" [] d = 1 -> "1" [] d = 2 -> "2" [] d = 3 -> "3"
      [] d = 4 -> "4" [] d = 5 -> "5" [] d = 6 -> "6" [] d = 7 -> "7"
      [] d = 8 -> "8" [] d = 9 -> "9"

RECURSIVE Str(_)
\* Python's str() of an int.
Str(i) ==
    IF i < 0 THEN "-" \o Str(0 - i)
    ELSE IF i < 10 THEN Digit(i)
    ELSE Str(i \div 10) \o Digit(i % 10)

\* torch.ones(input_dim)
Ones(k) == [i \in 1..k |-> 1]

\* e_feat[l + 1] = 1. where the code has e_feat[l] = 1.
OneHotShifted(l, n) ==
    IF l + 1 >= n \/ l + 1 < 0 - n THEN [err |-> "IndexError", v |-> <<>>]
    ELSE [err |-> "none",
          v |-> [i \in 1..n |-> IF i - 1 = (IF l + 1 < 0 THEN l + 1 + n ELSE l + 1)
                                 THEN 1 ELSE 0]]

\* e_feat = torch.zeros(num_edge_types); e_feat[l] = 1.
\* A negative index counts from the end; an index outside -n..n-1 raises.
OneHot(l, n) ==
    IF l >= n \/ l < 0 - n THEN [err |-> "IndexError", v |-> <<>>]
    ELSE [err |-> "none",
          v |-> [i \in 1..n |-> IF i - 1 = (IF l < 0 THEN l + n ELSE l) THEN 1 ELSE 0]]

RECURSIVE EdgeLoop(_, _, _, _)
\* for u, v, edge_key in G.edges: ... H.add_edge(u, v, edge_feature=..., edge_type=...)
EdgeLoop(es, i, n, added) ==
    IF i > Len(es) THEN [err |-> "none", edges |-> added]
    ELSE LET f == OneHot(es[i].e_label, n)
         IN  IF f.err # "none" THEN [err |-> f.err, edges |-> <<>>]
             ELSE EdgeLoop(es, i + 1, n,
                           Append(added, [u |-> es[i].u, v |-> es[i].v,
                                          edge_feature |-> f.v,
                                          edge_type |-> Str(es[i].e_label)]))

WN_transform(g, n) ==
    LET nodes == [x \in g.nodes |-> [node_type |-> "n1", node_feature |-> Ones(InputDim)]]
        r == EdgeLoop(g.edges, 1, n, <<>>)
    IN  [err |-> r.err, nodes |-> IF r.err = "none" THEN nodes ELSE <<>>, edges |-> r.edges]

(***************************************************************************)
(* HeteroNet.forward, lines 94-115, with one embedding dimension           *)
(***************************************************************************)
Nodes == {0, 1}

Params == [Nodes -> {0, 1}]

\* x['n1'] after the two convolutions: per node, what the parameters give, and 0
\* where a training-mode dropout draw removed the node's signal.
Embed(params, training, drop) ==
    [x \in Nodes |-> IF training /\ x \in drop THEN 0 ELSE params[x]]

\* pred[message_type] = torch.sum(nodes_first * nodes_second, dim=-1)
forward(params, training, drop, batch) ==
    LET x == Embed(params, training, drop)
    IN  [k \in 1..Len(batch.edge_label_index) |->
            [i \in 1..Len(batch.edge_label_index[k]) |->
                x[batch.edge_label_index[k][i][1]] * x[batch.edge_label_index[k][i][2]]]]

\* torch.sigmoid of the scores the embeddings can give, in percent.
Sigmoid(s) == CASE s = 0 -> 50 [] s = 1 -> 73

\* p = torch.sigmoid(pred[key]) for every key, beside batch.edge_label
Outputs(scores, batch) ==
    [p |-> [k \in 1..Len(scores) |-> [i \in 1..Len(scores[k]) |-> Sigmoid(scores[k][i])]],
     y |-> batch.edge_label]

\* pred = model(batch) for every batch of every split, in evaluation mode
Evaluate(params, loaders) ==
    [m \in 1..Len(loaders) |->
        [mode |-> loaders[m].mode,
         batches |-> [i \in 1..Len(loaders[m].batches) |->
                        Outputs(forward(params, FALSE, {}, loaders[m].batches[i]),
                                loaders[m].batches[i])]]]

\* test(model, dataloaders, args) after model.eval()
test(m, loaders) == TestLoop(Evaluate(m.params, loaders))

(***************************************************************************)
(* Inputs                                                                  *)
(***************************************************************************)
\* Graphs given to WN_transform: node 2 is isolated, labels may be out of range.
Graphs ==
    { [nodes |-> {0, 1, 2}, edges |-> es] :
        es \in UNION { [1..k -> [u : {0, 1}, v : {0, 1}, e_label : (0 - 1)..MaxTypes]] :
                       k \in 0..MaxEdges } }

\* A batch as test() sees it: per relation type, the probabilities and the labels.
EB(ps, ys) == [p |-> ps, y |-> ys]

EvaluatedBatches ==
    { EB(<<>>, <<>>),                                     \* no relation type
      EB(<< <<>> >>, << <<>> >>),                         \* one type, no candidate edge
      EB(<< <<90, 20, 40, 60>> >>, << <<1, 0, 1, 0>> >>), \* the scenario of the spec
      EB(<< <<50>> >>, << <<1>> >>),
      EB(<< <<50>>, <<60, 60>> >>, << <<0>>, <<1, 0>> >>) }

EvaluatedSplits ==
    UNION { [1..k -> EvaluatedBatches] : k \in 0..MaxBatches }

\* A batch of a loader: per relation type, the candidate edges and their labels.
Bt(idx, lab) == [edge_label_index |-> idx, edge_label |-> lab]

Loaders(tr, va, te) ==
    << [mode |-> "train", batches |-> tr], [mode |-> "val", batches |-> va],
       [mode |-> "test", batches |-> te] >>

OneEdge == Bt(<< << <<0, 1>> >> >>, << <<1>> >>)

TenEdges ==
    Bt(<< << <<0, 0>>, <<1, 1>>, <<1, 1>>, <<1, 1>> >>,
          << <<0, 1>>, <<0, 1>>, <<0, 1>>, <<0, 1>>, <<0, 1>>, <<0, 1>> >> >>,
       << <<1, 1, 1, 1>>, <<0, 0, 0, 0, 0, 0>> >>)

SelfEdge(x, y) == Bt(<< << <<x, x>> >> >>, << <<y>> >>)

Datasets ==
    { Loaders(<<OneEdge>>, <<TenEdges>>, <<SelfEdge(0, 1)>>),
      Loaders(<<SelfEdge(0, 1), OneEdge>>, <<SelfEdge(0, 1), SelfEdge(1, 1)>>,
              <<OneEdge, SelfEdge(1, 0)>>),
      Loaders(<<OneEdge>>, <<SelfEdge(0, 1)>>, <<OneEdge>>),
      Loaders(<<OneEdge>>, <<SelfEdge(0, 1)>>, <<>>),                 \* empty test split
      Loaders(<<OneEdge>>, <<Bt(<<>>, <<>>)>>, <<OneEdge>>),           \* no relation type
      Loaders(<<OneEdge>>, <<Bt(<< <<>> >>, << <<>> >>)>>, <<OneEdge>>), \* no candidate
      Loaders(<<Bt(<<>>, <<>>)>>, <<OneEdge>>, <<OneEdge>>),
      Loaders(<<>>, <<OneEdge>>, <<OneEdge>>) }                        \* no training batch

Zero == [n |-> 0, d |-> 1]

NoGraph == [err |-> "none", nodes |-> <<>>, edges |-> <<>>]

NoResult == [err |-> "none", accs |-> NoAccs]

NoModel == [params |-> [x \in Nodes |-> 0], training |-> TRUE]

\* best_model = model: another name for the live object
AliasOf(m) == [alias |-> TRUE, obj |-> m]

\* copy.copy-like sharing where the code has copy.deepcopy
ShallowCopy(m) == [alias |-> TRUE, obj |-> m]

\* copy.deepcopy(model): a new object with the same contents
deepcopy(m) == [alias |-> FALSE, obj |-> m]

\* the live model where the code has best_model
DerefLive(ref, live) == live

\* The object a reference denotes.
Deref(ref, live) == IF ref.alias THEN live ELSE ref.obj

Idle ==
    /\ G = [nodes |-> {}, edges |-> <<>>] /\ num_edge_types = 0 /\ H = NoGraph
    /\ tin = <<>> /\ tres = NoResult

TrainIdle ==
    /\ epochs = 0 /\ dataloaders = <<>> /\ model = NoModel /\ grad = "none"
    /\ best_model = AliasOf(NoModel) /\ val_max = Zero /\ epoch = 0 /\ iter_i = 0
    /\ t_accu_sum = [v |-> 0, np |-> FALSE] /\ t_accu_cnt = 0 /\ pred = <<>>
    /\ accs = NoAccs /\ v_accu = <<>> /\ p_hist = <<>> /\ copies = {}
    /\ stepTrace = <<>> /\ counts = [steps |-> 0, logs |-> 0, checks |-> 0]
    /\ evalLog = <<>> /\ out = NoAccs /\ exc = "none"

InitTransform ==
    /\ entry = "transform" /\ pc = "call"
    /\ G \in Graphs /\ num_edge_types \in 0..MaxTypes /\ H = NoGraph
    /\ tin = <<>> /\ tres = NoResult
    /\ TrainIdle

InitTest ==
    /\ entry = "test" /\ pc = "call"
    /\ tin \in { << [mode |-> "val", batches |-> a], [mode |-> "test", batches |-> b] >> :
                 a \in EvaluatedSplits, b \in EvaluatedSplits }
    /\ tres = NoResult
    /\ G = [nodes |-> {}, edges |-> <<>>] /\ num_edge_types = 0 /\ H = NoGraph
    /\ TrainIdle

\* train(model, dataloaders, optimizer, args) up to line 130; the model comes
\* freshly initialised (any parameters) from main().
InitTrain ==
    /\ entry = "train" /\ pc = "epoch_head"
    /\ Idle
    /\ dataloaders \in Datasets
    /\ epochs \in 0..MaxEpochs
    /\ (epochs - 1) * Len(dataloaders[1].batches) <= MaxSteps
    /\ model \in [params : Params, training : {TRUE}]
    /\ grad = "none"
    /\ val_max = Zero
    /\ best_model = AliasOf(model)
    /\ epoch = 0 /\ iter_i = 0
    /\ t_accu_sum = [v |-> 0, np |-> FALSE] /\ t_accu_cnt = 0 /\ pred = <<>>
    /\ accs = NoAccs /\ v_accu = <<>> /\ p_hist = <<>> /\ copies = {}
    /\ stepTrace = <<>> /\ counts = [steps |-> 0, logs |-> 0, checks |-> 0]
    /\ evalLog = <<>> /\ out = NoAccs /\ exc = "none"

Init == InitTransform \/ InitTest \/ InitTrain

(***************************************************************************)
(* The entry points called directly                                        *)
(***************************************************************************)
trainVars == <<epochs, dataloaders, model, grad, best_model, val_max, epoch, iter_i,
               t_accu_sum, t_accu_cnt, pred, accs, v_accu, p_hist, copies, stepTrace,
               counts, evalLog, out>>

callVars == <<entry, G, num_edge_types, H, tin, tres>>

\* H = WN_transform(G, num_edge_types)
TransformCall ==
    /\ entry = "transform" /\ pc = "call"
    /\ H' = WN_transform(G, num_edge_types)
    /\ exc' = H'.err
    /\ pc' = IF H'.err = "none" THEN "returned" ELSE "raised"
    /\ UNCHANGED <<entry, G, num_edge_types, tin, tres>>
    /\ UNCHANGED trainVars

\* accs = test(model, dataloaders, args), the model's outputs being tin's
TestCall ==
    /\ entry = "test" /\ pc = "call"
    /\ tres' = TestLoop(tin)
    /\ exc' = tres'.err
    /\ pc' = IF tres'.err = "none" THEN "returned" ELSE "raised"
    /\ UNCHANGED <<entry, G, num_edge_types, H, tin>>
    /\ UNCHANGED trainVars

(***************************************************************************)
(* train(), lines 125-174                                                  *)
(***************************************************************************)
\* range(1, args.epochs + 1) where the code has range(1, args.epochs)
EpochRangeInclusive(e) == 1..e

\* range(1, args.epochs)
EpochRange(e) == 1..(e - 1)

\* {key: val for key, val in dataloaders.items() if key != "train"}
NonTrain(loaders) == SelectSeq(loaders, LAMBDA l : l.mode # "train")

Modes(loaders) == [m \in 1..Len(loaders) |-> loaders[m].mode]

TrainBatches == dataloaders[1].batches

At(p) == entry = "train" /\ pc = p

Did(op) == stepTrace' = Append(stepTrace, op)

\* for epoch in range(1, args.epochs): t_accu_sum = 0; t_accu_cnt = 0
EpochHead ==
    /\ At("epoch_head")
    /\ IF epoch + 1 \in EpochRange(epochs)
       THEN /\ epoch' = epoch + 1
            /\ t_accu_sum' = [v |-> 0, np |-> FALSE]
            /\ t_accu_cnt' = 0
            /\ iter_i' = 0
            /\ pc' = "batch_head"
       ELSE /\ pc' = "final_eval"
            /\ UNCHANGED <<epoch, t_accu_sum, t_accu_cnt, iter_i>>
    /\ UNCHANGED <<epochs, dataloaders, model, grad, best_model, val_max, pred, accs,
                   v_accu, p_hist, copies, stepTrace, counts, evalLog, out, exc>>
    /\ UNCHANGED callVars

\* for iter_i, batch in enumerate(dataloaders['train']): batch.to(args.device)
BatchHead ==
    /\ At("batch_head")
    /\ IF iter_i < Len(TrainBatches)
       THEN /\ iter_i' = iter_i + 1
            /\ stepTrace' = <<>>
            /\ pc' = "train_mode"
       ELSE /\ pc' = "epoch_head"
            /\ UNCHANGED <<iter_i, stepTrace>>
    /\ UNCHANGED <<epochs, dataloaders, model, grad, best_model, val_max, epoch,
                   t_accu_sum, t_accu_cnt, pred, accs, v_accu, p_hist, copies, counts,
                   evalLog, out, exc>>
    /\ UNCHANGED callVars

\* model.train()
SetTrain ==
    /\ At("train_mode")
    /\ model' = [model EXCEPT !.training = TRUE]
    /\ Did("train")
    /\ pc' = "zero_grad"
    /\ UNCHANGED <<epochs, dataloaders, grad, best_model, val_max, epoch, iter_i,
                   t_accu_sum, t_accu_cnt, pred, accs, v_accu, p_hist, copies, counts,
                   evalLog, out, exc>>
    /\ UNCHANGED callVars

\* optimizer.zero_grad()
ZeroGrad ==
    /\ At("zero_grad")
    /\ grad' = "zero"
    /\ Did("zero_grad")
    /\ pc' = "forward"
    /\ UNCHANGED <<epochs, dataloaders, model, best_model, val_max, epoch, iter_i,
                   t_accu_sum, t_accu_cnt, pred, accs, v_accu, p_hist, copies, counts,
                   evalLog, out, exc>>
    /\ UNCHANGED callVars

\* pred = model(batch)
Forward ==
    /\ At("forward")
    /\ \E drop \in SUBSET Nodes :
          pred' = forward(model.params, model.training, drop, TrainBatches[iter_i])
    /\ Did(IF model.training THEN "forward" ELSE "forward_eval")
    /\ pc' = "accumulate"
    /\ UNCHANGED <<epochs, dataloaders, model, grad, best_model, val_max, epoch, iter_i,
                   t_accu_sum, t_accu_cnt, accs, v_accu, p_hist, copies, counts,
                   evalLog, out, exc>>
    /\ UNCHANGED callVars

\* for key in pred: ... t_accu_sum += np.sum(...); t_accu_cnt += len(pred_label)
Accumulate ==
    /\ At("accumulate")
    /\ LET r == KeyLoop(Outputs(pred, TrainBatches[iter_i]), 1, t_accu_sum,
                        [v |-> t_accu_cnt, bound |-> TRUE])
       IN  /\ t_accu_sum' = r.acc
           /\ t_accu_cnt' = r.num.v
    /\ Did("accumulate")
    /\ pc' = "loss"
    /\ UNCHANGED <<epochs, dataloaders, model, grad, best_model, val_max, epoch, iter_i,
                   pred, accs, v_accu, p_hist, copies, counts, evalLog, out, exc>>
    /\ UNCHANGED callVars

\* loss = model.loss(pred, batch.edge_label)
Loss ==
    /\ At("loss")
    /\ Did("loss")
    /\ pc' = "backward"
    /\ UNCHANGED <<epochs, dataloaders, model, grad, best_model, val_max, epoch, iter_i,
                   t_accu_sum, t_accu_cnt, pred, accs, v_accu, p_hist, copies, counts,
                   evalLog, out, exc>>
    /\ UNCHANGED callVars

\* loss.backward()
Backward ==
    /\ At("backward")
    /\ grad' = "set"
    /\ Did("backward")
    /\ pc' = "opt_step"
    /\ UNCHANGED <<epochs, dataloaders, model, best_model, val_max, epoch, iter_i,
                   t_accu_sum, t_accu_cnt, pred, accs, v_accu, p_hist, copies, counts,
                   evalLog, out, exc>>
    /\ UNCHANGED callVars

\* optimizer.step(): the live model's parameters move, to any value
OptStep ==
    /\ At("opt_step")
    /\ \E p \in Params :
          /\ model' = [model EXCEPT !.params = p]
          /\ p_hist' = Append(p_hist, p)
    /\ counts' = [counts EXCEPT !.steps = @ + 1]
    /\ Did("step")
    /\ pc' = "eval"
    /\ UNCHANGED <<epochs, dataloaders, grad, best_model, val_max, epoch, iter_i,
                   t_accu_sum, t_accu_cnt, pred, accs, v_accu, copies, evalLog, out, exc>>
    /\ UNCHANGED callVars

\* accs = test(model, {non-train splits}, args); accs["train"] = t_accu_sum / t_accu_cnt;
\* t_accu.append(...); v_accu.append(...); e_accu.append(...)
Eval ==
    /\ At("eval")
    /\ model' = [model EXCEPT !.training = FALSE]
    /\ evalLog' = Append(evalLog, [site |-> "step", modes |-> Modes(NonTrain(dataloaders)),
                                   params |-> model.params])
    /\ Did("eval")
    /\ LET r == test(model, NonTrain(dataloaders))
           q == Divide(t_accu_sum, [v |-> t_accu_cnt, bound |-> TRUE])
       IN  IF r.err # "none"
           THEN /\ exc' = r.err /\ pc' = "raised" /\ UNCHANGED <<accs, v_accu>>
           ELSE IF q.err # "none"
           THEN /\ exc' = q.err /\ pc' = "raised" /\ UNCHANGED <<accs, v_accu>>
           ELSE /\ accs' = ("train" :> q.val) @@ r.accs
                /\ v_accu' = Append(v_accu, r.accs["val"])
                /\ pc' = "log"
                /\ exc' = exc
    /\ UNCHANGED <<epochs, dataloaders, grad, best_model, val_max, epoch, iter_i,
                   t_accu_sum, t_accu_cnt, pred, p_hist, copies, counts, out>>
    /\ UNCHANGED callVars

\* print(log.format(epoch, loss.item(), accs['train'], accs['val'], accs['test']))
Log ==
    /\ At("log")
    /\ counts' = [counts EXCEPT !.logs = @ + 1]
    /\ Did("log")
    /\ pc' = "best_check"
    /\ UNCHANGED <<epochs, dataloaders, model, grad, best_model, val_max, epoch, iter_i,
                   t_accu_sum, t_accu_cnt, pred, accs, v_accu, p_hist, copies, evalLog,
                   out, exc>>
    /\ UNCHANGED callVars

\* if val_max < accs['val']: val_max = accs['val']; best_model = copy.deepcopy(model)
BestCheck ==
    /\ At("best_check")
    /\ IF Less(val_max, accs["val"])
       THEN /\ val_max' = accs["val"]
            /\ best_model' = deepcopy(model)
            /\ copies' = copies \cup {counts.steps}
       ELSE UNCHANGED <<val_max, best_model, copies>>
    /\ counts' = [counts EXCEPT !.checks = @ + 1]
    /\ Did("best_check")
    /\ pc' = "batch_head"
    /\ UNCHANGED <<epochs, dataloaders, model, grad, epoch, iter_i, t_accu_sum,
                   t_accu_cnt, pred, accs, v_accu, p_hist, evalLog, out, exc>>
    /\ UNCHANGED callVars

\* accs = test(best_model, dataloaders, args)
FinalEval ==
    /\ At("final_eval")
    /\ IF best_model.alias
       THEN /\ model' = [model EXCEPT !.training = FALSE]
            /\ UNCHANGED best_model
       ELSE /\ best_model' = [best_model EXCEPT !.obj.training = FALSE]
            /\ UNCHANGED model
    /\ evalLog' = Append(evalLog, [site |-> "final", modes |-> Modes(dataloaders),
                                   params |-> Deref(best_model, model).params])
    /\ LET r == test(Deref(best_model, model), dataloaders)
       IN  IF r.err # "none"
           THEN /\ exc' = r.err /\ pc' = "raised" /\ UNCHANGED accs
           ELSE /\ accs' = r.accs /\ pc' = "final_print" /\ exc' = exc
    /\ UNCHANGED <<epochs, dataloaders, grad, val_max, epoch, iter_i, t_accu_sum,
                   t_accu_cnt, pred, v_accu, p_hist, copies, stepTrace, counts, out>>
    /\ UNCHANGED callVars

\* print(log.format(accs['train'], accs['val'], accs['test']))
FinalPrint ==
    /\ At("final_print")
    /\ out' = accs
    /\ pc' = "done"
    /\ UNCHANGED <<epochs, dataloaders, model, grad, best_model, val_max, epoch, iter_i,
                   t_accu_sum, t_accu_cnt, pred, accs, v_accu, p_hist, copies, stepTrace,
                   counts, evalLog, exc>>
    /\ UNCHANGED callVars

Next ==
    \/ TransformCall
    \/ TestCall
    \/ EpochHead
    \/ BatchHead
    \/ SetTrain
    \/ ZeroGrad
    \/ Forward
    \/ Accumulate
    \/ Loss
    \/ Backward
    \/ OptStep
    \/ Eval
    \/ Log
    \/ BestCheck
    \/ FinalEval
    \/ FinalPrint

Spec == Init /\ [][Next]_vars

(***************************************************************************)
(* Vocabulary of the properties, written without the operators above       *)
(***************************************************************************)
\* a > b on floats
Gt(a, b) ==
    /\ ~(a.n = 0 /\ a.d = 0)
    /\ ~(b.n = 0 /\ b.d = 0)
    /\ \/ a.d = 0 /\ b.d # 0
       \/ a.d # 0 /\ b.d # 0 /\ a.n * b.d > b.n * a.d

\* a is the number n/d
Is(a, n, d) == a.d # 0 /\ a.n * d = n * a.d

InUnit(a) == a.d > 0 /\ 0 <= a.n /\ a.n <= a.d

RECURSIVE SumOver(_, _)
SumOver(s, i) == IF i > Len(s) THEN 0 ELSE s[i] + SumOver(s, i + 1)

Range(s) == {s[i] : i \in 1..Len(s)}

\* The candidate edges of a batch, and those predicted right.
Candidates(b) == UNION { { <<k, i>> : i \in 1..Len(b.p[k]) } : k \in 1..Len(b.p) }

Hits(b) == { c \in Candidates(b) : (b.p[c[1]][c[2]] > Half) <=> (b.y[c[1]][c[2]] = 1) }

TotalHits(batches) ==
    SumOver([i \in 1..Len(batches) |-> Cardinality(Hits(batches[i]))], 1)

TotalCandidates(batches) ==
    SumOver([i \in 1..Len(batches) |-> Cardinality(Candidates(batches[i]))], 1)

\* The splits of train() as test() sees them (the labels and counts do not
\* depend on the parameters).
Seen == Evaluate(model.params, dataloaders)

BestParams == Deref(best_model, model).params

Max0(i) == IF i > 0 THEN i ELSE 0

IsPrefix(s, t) == Len(s) <= Len(t) /\ \A i \in 1..Len(s) : s[i] = t[i]

StepOrder ==
    <<"train", "zero_grad", "forward", "accumulate", "loss", "backward", "step",
      "eval", "log", "best_check">>

(***************************************************************************)
(* C1.  Every accuracy value produced by test() and by train() lies in     *)
(* [0, 1], for any number of batches per split and of relation types per   *)
(* batch, provided each split yields at least one candidate edge.          *)
(* Stated here for splits all of whose batches hold a candidate edge.      *)
(***************************************************************************)
EveryBatchHasCandidates(splits) ==
    \A m \in 1..Len(splits) :
        /\ Len(splits[m].batches) >= 1
        /\ \A i \in 1..Len(splits[m].batches) :
              Cardinality(Candidates(splits[m].batches[i])) >= 1

\* C1: every accuracy of test() and of train() is in [0, 1].
C1_AccuraciesInUnitInterval ==
    /\ (entry = "test" /\ pc = "returned" /\ EveryBatchHasCandidates(tin))
       => \A m \in DOMAIN tres.accs : InUnit(tres.accs[m])
    /\ (entry = "train" /\ EveryBatchHasCandidates(Seen))
       => \A m \in DOMAIN accs : InUnit(accs[m])

(***************************************************************************)
(* C2.  For every split passed to test(), the returned accuracy is the     *)
(* number of correctly predicted candidate edges of all batches and        *)
(* relation types of the split divided by the number of candidate edges of *)
(* all its batches and relation types.                                     *)
(* Stated here for splits all of whose batches hold a candidate edge.      *)
(***************************************************************************)
\* C2: the accuracy of a split is its total correct-count over its total count.
C2_AccuracyIsTotalRatio ==
    (entry = "test" /\ pc = "returned" /\ EveryBatchHasCandidates(tin)) =>
        \A m \in 1..Len(tin) :
            Is(tres.accs[tin[m].mode], TotalHits(tin[m].batches),
               TotalCandidates(tin[m].batches))

(***************************************************************************)
(* C3.  best_model is replaced by a fresh deep copy of the live model at a *)
(* step if and only if that step's validation accuracy is strictly greater *)
(* than val_max; a tie never copies; val_max never decreases and is the    *)
(* largest of 0 and the validation accuracies of the steps checked so far. *)
(***************************************************************************)
\* C3 (state part): val_max is the largest of 0 and the validation accuracies
\* of the steps whose best-model check has run.
C3_RunningMax ==
    entry = "train" =>
        LET seen == {Zero} \cup {v_accu[i] : i \in 1..counts.checks}
        IN  /\ val_max \in seen
            /\ \A a \in seen : ~Gt(a, val_max)

\* C3 (step part): a deep copy is taken exactly by a best-model check whose
\* validation accuracy is strictly greater than val_max; the copy is a fresh object
\* equal to the live model; val_max never decreases.
C3_CopyStep ==
    /\ (copies' # copies) <=> (At("best_check") /\ Gt(accs["val"], val_max))
    /\ (best_model' # best_model) => (copies' # copies)
    /\ (copies' # copies) =>
          /\ best_model' = [alias |-> FALSE, obj |-> model]
          /\ val_max' = accs["val"]
    /\ ~Gt(val_max, val_max')

\* C3: best_model is replaced by a fresh deep copy iff the step's validation
\* accuracy is strictly greater than the running maximum val_max.
C3_CopyIffStrictlyBetter == []C3_RunningMax /\ [][C3_CopyStep]_vars

\* C3 witness: a step whose validation accuracy ties the running maximum has been
\* checked and took no copy, while an earlier step did.
C3_Witness ==
    /\ entry = "train" /\ pc = "batch_head" /\ counts.checks >= 2
    /\ Is(val_max, v_accu[counts.checks].n, v_accu[counts.checks].d)
    /\ Gt(val_max, Zero)
    /\ counts.checks \notin copies
    /\ copies # {}

(***************************************************************************)
(* C4.  Validation accuracies 0.6, 0.6, 0.7 in that order.                 *)
(*   As claimed: no snapshot at step 1 or 2, exactly one at step 3.        *)
(*   As the code does it: val_max starts at 0, so step 1 takes a snapshot  *)
(*   too; step 2 (the tie) takes none; step 3 takes one.                   *)
(***************************************************************************)
\* The run of C4: the first three validation accuracies are 0.6, 0.6, 0.7 and
\* the three best-model checks have run.
Scenario060607 ==
    /\ entry = "train" /\ Len(v_accu) >= 3 /\ counts.checks >= 3
    /\ Is(v_accu[1], 6, 10) /\ Is(v_accu[2], 6, 10) /\ Is(v_accu[3], 7, 10)

\* C4 as amended: snapshots are taken at step 1 and at step 3, none at step 2.
C4_SnapshotsAtSteps1And3 == Scenario060607 => copies \cap (1..3) = {1, 3}

\* C4 as claimed: the only snapshot of the three steps is taken at step 3.
C4_SnapshotOnlyAtStep3 == Scenario060607 => copies \cap (1..3) = {3}

\* C4 witness: the run 0.6, 0.6, 0.7 has happened, with snapshots at steps 1 and 3.
C4_Witness == Scenario060607 /\ copies \cap (1..3) = {1, 3}

(***************************************************************************)
(* C5.  best_model is an independent snapshot of the live model.           *)
(*   As claimed: in every state, no optimizer step changes best_model.     *)
(*   As the code does it: only once a deep copy has been taken; until      *)
(*   then best_model is the live model itself (line 127).                  *)
(***************************************************************************)
\* An optimizer step leaves best_model's parameters and outputs as they were.
C5_StepKeepsBest ==
    At("opt_step") =>
        /\ Deref(best_model', model').params = BestParams
        /\ Evaluate(Deref(best_model', model').params, dataloaders)
             = Evaluate(BestParams, dataloaders)

\* C5 as claimed: in every state, no optimizer step changes best_model.
C5_IndependentAlways == [][C5_StepKeepsBest]_vars

\* C5 as amended: once a deep copy has been taken no optimizer step changes
\* best_model, and a copy has the live model's parameters when it is taken.
C5_IndependentOnceCopied ==
    [][ /\ (copies # {}) => C5_StepKeepsBest
        /\ (copies' # copies) =>
              /\ ~best_model'.alias
              /\ Deref(best_model', model').params = model.params ]_vars

\* C5 witness: after a copy, an optimizer step has moved the live model away from it.
C5_Witness ==
    /\ entry = "train" /\ pc = "eval" /\ copies # {}
    /\ ~best_model.alias
    /\ best_model.obj.params # model.params

(***************************************************************************)
(* C6.  After all epochs train() evaluates exactly once more, on train,    *)
(* val and test, the model of the earliest step that attained the maximum  *)
(* validation accuracy of the run.                                         *)
(*   As the code does it: that holds when some validation accuracy was     *)
(*   greater than 0; otherwise the live model, as it is at the end, is     *)
(*   evaluated.                                                            *)
(***************************************************************************)
\* Step k is the earliest step that attained the largest validation accuracy.
IsFirstMax(k) ==
    /\ ~IsNaN(v_accu[k])
    /\ \A j \in 1..Len(v_accu) : ~Gt(v_accu[j], v_accu[k])
    /\ \A j \in 1..(k - 1) : Gt(v_accu[k], v_accu[j]) \/ IsNaN(v_accu[j])

Finished == entry = "train" /\ pc \in {"final_print", "done"}

FinalEvals == {i \in 1..Len(evalLog) : evalLog[i].site = "final"}

\* C6 as claimed: the final evaluation is of the parameters of the earliest step
\* that attained the maximum validation accuracy.
C6_FinalEvaluatesFirstMax ==
    Finished =>
        \A k \in 1..Len(v_accu) :
            IsFirstMax(k) => evalLog[Len(evalLog)].params = p_hist[k]

\* C6 as amended: one final evaluation, on train, val and test; of the earliest
\* best step's parameters if some validation accuracy exceeded 0, and of the live
\* model's final parameters otherwise.
C6_FinalEvaluatesBest ==
    Finished =>
        /\ FinalEvals = {Len(evalLog)}
        /\ evalLog[Len(evalLog)].modes = <<"train", "val", "test">>
        /\ \A k \in 1..Len(v_accu) :
              (IsFirstMax(k) /\ Gt(v_accu[k], Zero))
                  => evalLog[Len(evalLog)].params = p_hist[k]
        /\ (\A k \in 1..Len(v_accu) : ~Gt(v_accu[k], Zero))
              => evalLog[Len(evalLog)].params = model.params

\* C6 witness: the run is over, the best step is not the last one, the live model
\* has moved since, and the final evaluation was of the best step's parameters.
C6_Witness ==
    /\ Finished /\ Len(v_accu) >= 2
    /\ \E k \in 1..(Len(v_accu) - 1) :
          IsFirstMax(k) /\ Gt(v_accu[k], Zero) /\ p_hist[k] # model.params
                        /\ evalLog[Len(evalLog)].params = p_hist[k]

(***************************************************************************)
(* C7.  In train() and in test() a candidate edge's predicted label is 1   *)
(* exactly when its probability is strictly greater than 0.5 (0.5 itself   *)
(* gives 0), and the correct-count is the number of positions where the    *)
(* predicted label equals the ground truth; ground truth [1,0,1,0] with    *)
(* probabilities [0.9,0.2,0.4,0.6] gives accuracy 0.5.                     *)
(***************************************************************************)
ScenarioBatch == EB(<< <<90, 20, 40, 60>> >>, << <<1, 0, 1, 0>> >>)

\* C7 (test): the numerator of every accuracy test() returns is the number of
\* candidates whose probability is > 0.5 exactly when their label is 1; the
\* scenario batch gives 2/4 = 0.5.
C7_TestCounts ==
    (entry = "test" /\ pc = "returned") =>
        /\ \A m \in 1..Len(tin) :
              tres.accs[tin[m].mode].n = TotalHits(tin[m].batches)
        /\ tin[1].batches = <<ScenarioBatch>> =>
              /\ tres.accs["val"] = [n |-> 2, d |-> 4]
              /\ Is(tres.accs["val"], 1, 2)

\* C7 (train): the running counters grow by the same count and by the number of
\* candidates of the batch.
C7_TrainCounts ==
    At("accumulate") =>
        /\ t_accu_sum'.v = t_accu_sum.v
                           + Cardinality(Hits(Outputs(pred, TrainBatches[iter_i])))
        /\ t_accu_cnt' = t_accu_cnt
                           + Cardinality(Candidates(Outputs(pred, TrainBatches[iter_i])))

\* C7: the predicted label is 1 exactly for a probability > 0.5, and the
\* correct-count is the number of candidates predicted right, in test() and train().
C7_ThresholdAndCount == []C7_TestCounts /\ [][C7_TrainCounts]_vars

\* C7 witness: test() has returned 0.5 for the scenario batch.
C7_Witness ==
    /\ entry = "test" /\ pc = "returned"
    /\ tin[1].batches = <<ScenarioBatch>>
    /\ Is(tres.accs["val"], 1, 2)

(***************************************************************************)
(* C8.  For every edge of the graph WN_transform returns whose label l has *)
(* 0 <= l < num_edge_types: the feature vector has length num_edge_types,  *)
(* a 1 at index l and 0 elsewhere, and the edge type is str(l); the nodes  *)
(* and the multiset of (u, v) edges are those of G.                        *)
(***************************************************************************)
TypeNames == <<"0", "1", "2", "3", "4", "5", "6", "7", "8", "9", "10", "11">>

\* How many edges of es run from u to v.
Multiplicity(es, u, v) == Cardinality({i \in 1..Len(es) : es[i].u = u /\ es[i].v = v})

\* C8: each in-range edge label l gives a one-hot feature vector of length
\* num_edge_types with its 1 at index l and the edge type str(l); nodes and the
\* multiset of (u, v) edges are those of G.
C8_OneHotAndType ==
    (entry = "transform" /\ pc = "returned") =>
        /\ DOMAIN H.nodes = G.nodes
        /\ Len(H.edges) = Len(G.edges)
        /\ \A u \in G.nodes, v \in G.nodes :
              Multiplicity(H.edges, u, v) = Multiplicity(G.edges, u, v)
        /\ \A i \in 1..Len(G.edges) :
              LET l == G.edges[i].e_label
                  e == H.edges[i]
              IN  (0 <= l /\ l < num_edge_types) =>
                      /\ e.u = G.edges[i].u /\ e.v = G.edges[i].v
                      /\ Len(e.edge_feature) = num_edge_types
                      /\ e.edge_feature[l + 1] = 1
                      /\ \A j \in 1..num_edge_types : j # l + 1 => e.edge_feature[j] = 0
                      /\ e.edge_type = TypeNames[l + 1]

\* C8 witness: the scenario of the spec: two labels, one edge labelled 1, feature [0, 1].
C8_Witness ==
    /\ entry = "transform" /\ pc = "returned"
    /\ num_edge_types = 2 /\ Len(G.edges) = 1 /\ G.edges[1].e_label = 1
    /\ H.edges[1].edge_feature = <<0, 1>>
    /\ H.edges[1].edge_type = "1"

(***************************************************************************)
(* C9.  A split with no batches, or whose batches hold no candidate edge,  *)
(* makes test() fail with a division by zero: it returns no accuracies,    *)
(* and train() does not go on to log, to check the best model or to print  *)
(* the final line.                                                         *)
(* Stated here for its first case, a split with no batches, and for any    *)
(* exception at all.                                                       *)
(***************************************************************************)
\* C9: with a split that has no batches, test() raises and train() stops.
C9_EmptySplitIsFatal ==
    /\ ( /\ entry = "test" /\ pc # "call"
         /\ \E m \in 1..Len(tin) : Len(tin[m].batches) = 0 )
       => (pc = "raised" /\ tres.accs = NoAccs)
    /\ ( /\ entry = "train"
         /\ \E m \in 2..Len(dataloaders) : Len(dataloaders[m].batches) = 0 )
       => (pc \notin {"log", "best_check", "final_print", "done"} /\ counts.logs = 0)

(***************************************************************************)
(* C10.  With epoch count E and B training batches, train() performs       *)
(* (E-1)*B training steps, each in the order of StepOrder, with one        *)
(* evaluation of exactly val and test and one log line per batch, and no   *)
(* training forward pass in evaluation mode.                               *)
(*   As the code does it: range(1, E) is empty for E = 0 as for E = 1, so  *)
(*   the number of steps is max(E-1, 0)*B.                                 *)
(***************************************************************************)
StepEvals == {i \in 1..Len(evalLog) : evalLog[i].site = "step"}

\* The candidate edges of the training batches 1..k.
CandidatesUpTo(k) == TotalCandidates(SubSeq(Seen[1].batches, 1, k))

====
